---- MODULE Spec2Model ----
(***************************************************************************)
(* cosmwasm-simulate (src/src/main.rs): the schema-driven message          *)
(* constructor, the registry of contract instances ENGINES, the artifact   *)
(* watcher, the interactive session loop and the HTTP call API.            *)
(*                                                                         *)
(* Text is a sequence of lexical units: every punctuation character the    *)
(* code pushes or pops is one unit, every character of an operator-typed   *)
(* value is one unit, and a schema name (field, variant) is one unit.      *)
(* String::pop only ever removes the unit pushed last.                     *)
(***************************************************************************)
EXTENDS Integers, Sequences, FiniteSets, TLC

\* ------------------------------------------------------------------ bounds
\* longest field list of a message variant explored by SpecMsg
MaxFields == 2
\* modification times a tracked artifact goes through (1..MaxMTime)
MaxMTime == 2
\* calls dispatched in one behaviour (session loop and call API together)
MaxCalls == 2
\* passes of the watcher loop that end in a send on the readiness channel
MaxPass == 2

\* ------------------------------------------------------------------ text
QUOTE == "\""
BACKSLASH == "\\"
NEWLINE == "\n"

Last(s) == s[Len(s)]

\* String::pop: drops the last unit, whatever it is; nothing on empty text
Pop(s) == IF Len(s) = 0 THEN s ELSE SubSeq(s, 1, Len(s) - 1)

\* str::replace for a one-unit pattern
RECURSIVE Replace(_, _, _)
Replace(s, from, to) ==
    IF s = <<>> THEN <<>>
    ELSE (IF Head(s) = from THEN to ELSE <<Head(s)>>) \o Replace(Tail(s), from, to)

\* type_name.strip_suffix('?')
StripSuffix(type_name) ==
    IF Len(type_name) > 0 /\ Last(type_name) = "?"
    THEN [name |-> Pop(type_name), optional |-> TRUE]
    ELSE [name |-> type_name, optional |-> FALSE]

check_is_need_slash(name) == name = <<"string">>

\* ---------------------------------------------------------------- schema
\* An analyzer is [map_of_basetype, map_of_struct, map_of_enum, map_of_member];
\* type names are texts, so that the optional marker is a real suffix.
NoMap == [x \in {} |-> <<>>]

T_int == <<"int">>
T_string == <<"string">>
T_optstring == <<"string", "?">>
T_optalias == <<"Uint128", "?">>
T_Coin == <<"Coin">>
T_Opts == <<"Opts">>
T_Empty == <<"Empty">>
T_optCoin == <<"Coin", "?">>

Member(n, t) == [member_name |-> n, member_def |-> t]

\* the analyzer the message constructor is explored with
MsgAnalyzer ==
    [map_of_basetype |-> (<<"Uint128">> :> T_string),
     map_of_struct |-> (T_Coin :> << <<"d", T_string>>, <<"n", T_optalias>> >>)
                    @@ (T_Opts :> << <<"p", T_optstring>>, <<"q", T_optstring>> >>)
                    @@ (T_Empty :> <<>>),
     map_of_enum |-> NoMap,
     map_of_member |-> NoMap]

\* ------------------------------------------------------- message constructor
\* EDITOR.readline(input_data, _): the line typed is appended to input_data
readline(input_data, line) == input_data \o line

\* to_json_item; `line` is what the operator types at its one readline
to_json_item(name, type_name, analyzer, line) ==
    LET st == StripSuffix(type_name)
        data == readline(<<>>, line)
        mapped_type_name ==
            IF st.name \in DOMAIN analyzer.map_of_basetype
            THEN analyzer.map_of_basetype[st.name] ELSE st.name
        key == <<QUOTE, name, QUOTE, ":">>
    IN  IF data = <<>> /\ st.optional THEN <<>>
        ELSE IF check_is_need_slash(mapped_type_name)
             THEN key \o <<QUOTE>>
                      \o Replace(Replace(data, NEWLINE, <<>>), QUOTE, <<BACKSLASH, QUOTE>>)
                      \o <<QUOTE, ",">>
             ELSE key \o data \o <<",">>

\* the loop `for members in st.1` of input_type: one line per member
RECURSIVE struct_items(_, _, _)
struct_items(members, analyzer, lines) ==
    IF members = <<>> THEN <<>>
    ELSE to_json_item(Head(members)[1], Head(members)[2], analyzer, Head(lines))
         \o struct_items(Tail(members), analyzer, Tail(lines))

\* lines input_type reads for a field of type type_name
lines_of_type(type_name, analyzer) ==
    IF type_name \in DOMAIN analyzer.map_of_struct
       /\ Len(analyzer.map_of_struct[type_name]) > 0
    THEN Len(analyzer.map_of_struct[type_name])
    ELSE 1

\* input_type with the lines it reads, in the order it reads them
input_type(mem_name, type_name, analyzer, lines) ==
    IF type_name \notin DOMAIN analyzer.map_of_struct
    THEN to_json_item(mem_name, type_name, analyzer, Head(lines))
    ELSE LET st == analyzer.map_of_struct[type_name]
             params == <<QUOTE, mem_name, QUOTE, ":">>
         IN  IF Len(st) = 0
             THEN readline(params, Head(lines)) \o <<",">>
             ELSE LET filled == (params \o <<"{">>) \o struct_items(st, analyzer, lines)
                      popped == IF Len(st) > 0 THEN Pop(filled) ELSE filled
                  IN  (popped \o <<"}">>) \o <<",">>

\* the loop `for vcm in members` of input_message
RECURSIVE message_items(_, _, _)
message_items(members, analyzer, lines) ==
    IF members = <<>> THEN <<>>
    ELSE LET vcm == Head(members)
             n == lines_of_type(vcm.member_def, analyzer)
         IN  input_type(vcm.member_name, vcm.member_def, analyzer, SubSeq(lines, 1, n))
             \o message_items(Tail(members), analyzer, SubSeq(lines, n + 1, Len(lines)))

\* faulty variant: the trailing separator is left in place
input_message_nopop(members, final_msg) == final_msg

\* `if members.len() > 0 { final_msg.pop(); }`
input_message_pop(members, final_msg) ==
    IF Len(members) > 0 THEN Pop(final_msg) ELSE final_msg

input_message(name, members, analyzer, is_enum, lines) ==
    LET opened == <<"{">> \o (IF is_enum THEN <<QUOTE, name, QUOTE, ":", "{">> ELSE <<>>)
        filled == opened \o message_items(members, analyzer, lines)
        closed == input_message_pop(members, filled) \o <<"}">>
    IN  closed \o (IF is_enum THEN <<"}">> ELSE <<>>)

\* the names the lines are read for, in reading order (the prompts)
RECURSIVE asked_of(_, _)
asked_of(members, analyzer) ==
    IF members = <<>> THEN <<>>
    ELSE LET vcm == Head(members)
             t == vcm.member_def
             own == IF t \in DOMAIN analyzer.map_of_struct
                       /\ Len(analyzer.map_of_struct[t]) > 0
                    THEN [i \in 1..Len(analyzer.map_of_struct[t]) |->
                             analyzer.map_of_struct[t][i][1]]
                    ELSE <<vcm.member_name>>
         IN  own \o asked_of(Tail(members), analyzer)

RECURSIVE lines_needed(_, _)
lines_needed(members, analyzer) ==
    IF members = <<>> THEN 0
    ELSE lines_of_type(Head(members).member_def, analyzer)
         + lines_needed(Tail(members), analyzer)

\* ------------------------------------------------------------ the system
\* wasm_files of load_artifacts: the tracked artifacts, by contract address
wasm_files == <<"a1", "a2">>
\* an address no artifact has
Stranger == "zz"
Keys == {"k"}
EntryPoints == {"init", "handle", "query"}

\* MockStorage::default()
DefaultStorage == {}

\* analyzer of the module built for an address: a1 declares HandleMsg and
\* QueryMsg (no InitMsg); a2 exposes no schema (raw JSON mode)
AnalyzerOf(addr) ==
    IF addr = "a1"
    THEN [map_of_basetype |-> (<<"Uint128">> :> T_string),
          map_of_struct |-> NoMap,
          map_of_enum |-> ("HandleMsg" :> TRUE) @@ ("QueryMsg" :> TRUE),
          map_of_member |->
              ("HandleMsg" :> ("increment" :> <<>>))
              @@ ("QueryMsg" :> (("get_count" :> <<>>)
                                 @@ ("get_memo" :> <<Member("m", T_optstring)>>)))]
    ELSE [map_of_basetype |-> NoMap, map_of_struct |-> NoMap,
          map_of_enum |-> NoMap, map_of_member |-> NoMap]

VARIABLES
    mtime,          \* file system: modification time of each tracked artifact
    present,        \* file system: whether the artifact file exists
    ENGINES,        \* the registry: address -> instance [module, storage]
    modified_files, \* watcher: last modification time seen, per artifact
    wpc,            \* watcher: position in watch_and_update
    windex,         \* watcher: index of the for loop
    wNew,           \* watcher: result of new_instance inside insert_engine
    wReport,        \* watcher: what the last insert_engine printed
    sent,           \* messages sent on the readiness channel
    spc,            \* session: position
    sAddr,          \* session: contract_addr of start_simulate
    need_switch,    \* session: get_call_type's need_switch
    call_type,      \* session: call_type of the current iteration
    call_param,     \* session: call_param (group, then variant)
    is_enum,        \* session: is_enum of the current iteration
    msg_type,       \* session: msg_type, the variants of the chosen group
    json_msg,       \* session: payload of the call dispatched last
    sReport,        \* session: what the last iteration printed
    sEngine,        \* session: id of the instance the loop's `engine` reaches
    hpc,            \* call API: position of the one worker
    hReq,           \* call API: the call engine.call is running, if any
    hResp,          \* call API: response returned last
    qResp,          \* querier: what query_wasm returned last to a running call
    nCalls,         \* engine.call invocations begun so far
    mpc, mName, mMembers, mIsEnum, mLines, mOut   \* message constructor runs

sysvars == <<mtime, present, ENGINES, modified_files, wpc, windex, wNew, wReport, sent>>
sesvars == <<spc, sAddr, need_switch, call_type, call_param, is_enum, msg_type,
             json_msg, sReport, sEngine>>
httpvars == <<hpc, hReq, hResp, qResp>>
msgvars == <<mpc, mName, mMembers, mIsEnum, mLines, mOut>>
vars == <<sysvars, sesvars, httpvars, nCalls, msgvars>>

\* `let len = wasm_files.len()`, the length modified_files is given: the
\* artifacts load_artifacts found are the first len of wasm_files
len == Len(modified_files)

None == [none |-> TRUE]

IdleMsg ==
    /\ mpc = "idle" /\ mName = "" /\ mMembers = <<>> /\ mIsEnum = FALSE
    /\ mLines = <<>> /\ mOut = <<>>

\* state when prepare_command_line has spawned the watcher and waits on recv
Init ==
    /\ mtime = [i \in 1..Len(wasm_files) |-> 1]
    /\ present = [i \in 1..Len(wasm_files) |-> TRUE]
    /\ ENGINES = NoMap
    /\ modified_files = [i \in 1..Len(wasm_files) |-> 0]
    /\ wpc = "poll" /\ windex = 1 /\ wNew = None /\ wReport = "none"
    /\ sent = 0
    /\ spc = "recv" /\ sAddr = "" /\ need_switch = FALSE
    /\ call_type = "" /\ call_param = "" /\ is_enum = FALSE /\ msg_type = NoMap
    /\ json_msg = None /\ sReport = "none" /\ sEngine = 0
    /\ hpc = "idle" /\ hReq = None /\ hResp = None /\ qResp = None
    /\ nCalls = 0
    /\ IdleMsg

\* ------------------------------------------------------------ file system
\* a build tool rewrites artifact i
Touch(i) ==
    /\ present[i] /\ mtime[i] < MaxMTime
    /\ mtime' = [mtime EXCEPT ![i] = @ + 1]
    /\ UNCHANGED <<present, ENGINES, modified_files, wpc, windex, wNew, wReport, sent>>
    /\ UNCHANGED <<sesvars, httpvars, nCalls, msgvars>>

\* artifact i is deleted
Remove(i) ==
    /\ present[i]
    /\ present' = [present EXCEPT ![i] = FALSE]
    /\ UNCHANGED <<mtime, ENGINES, modified_files, wpc, windex, wNew, wReport, sent>>
    /\ UNCHANGED <<sesvars, httpvars, nCalls, msgvars>>

\* ---------------------------------------------------------------- watcher
\* ContractInstance::new_instance: the module read from the artifact, with
\* its storage seeded from the storage passed in; id tells the instances that
\* an address has had apart
new_instance(index, storage) ==
    [module |-> mtime[index],
     storage |-> storage,
     id |-> IF wasm_files[index] \in DOMAIN ENGINES
            THEN ENGINES[wasm_files[index]].id + 1 ELSE 1]

\* faulty variant: a rebuild starts from empty storage
storage_for_default(contract_addr) == DefaultStorage

\* the storage watch_and_update hands to insert_engine
storage_for(contract_addr) ==
    IF contract_addr \in DOMAIN ENGINES
    THEN ENGINES[contract_addr].storage
    ELSE DefaultStorage

\* ENGINES.insert(contract_addr, engine)
Inserted(contract_addr, engine) ==
    [a \in DOMAIN ENGINES \cup {contract_addr} |->
        IF a = contract_addr THEN engine ELSE ENGINES[a]]

\* faulty variant: the old instance is discarded before the new one is constructed
AfterInstallError_drop(contract_addr) ==
    [a \in DOMAIN ENGINES \ {contract_addr} |-> ENGINES[a]]

\* the registry after insert_engine found new_instance to fail
AfterInstallError(contract_addr) == ENGINES

\* faulty variant: the time seen is not recorded
modified_after_poll_stale(index) == modified_files

\* modified_files[index] = modified_time
modified_after_poll(index) == [modified_files EXCEPT ![index] = mtime[index]]

WatchNextIndex ==
    /\ windex' = windex + 1
    /\ wpc' = IF windex + 1 > len THEN "notify" ELSE "poll"

\* top of the for loop: fs::metadata(wasm_file)?.modified() against modified_files
WatchPoll ==
    /\ wpc = "poll"
    /\ IF windex > len
       THEN /\ wpc' = "notify"
            /\ UNCHANGED <<windex, modified_files>>
       ELSE IF ~present[windex]
       THEN /\ wpc' = "stopped"
            /\ UNCHANGED <<windex, modified_files>>
       ELSE IF mtime[windex] = modified_files[windex]
       THEN /\ WatchNextIndex
            /\ UNCHANGED modified_files
       ELSE /\ modified_files' = modified_after_poll(windex)
            /\ wpc' = IF wasm_files[windex] \in DOMAIN ENGINES THEN "sleep100" ELSE "construct"
            /\ UNCHANGED windex
    /\ UNCHANGED <<mtime, present, ENGINES, wNew, wReport, sent>>
    /\ UNCHANGED <<sesvars, httpvars, nCalls, msgvars>>

\* thread::sleep(100ms) with the reference to the old instance held
WatchSleep100 ==
    /\ wpc = "sleep100"
    /\ wpc' = "construct"
    /\ UNCHANGED <<mtime, present, ENGINES, modified_files, windex, wNew, wReport, sent>>
    /\ UNCHANGED <<sesvars, httpvars, nCalls, msgvars>>

\* insert_engine, first half: new_instance succeeds or fails
WatchConstruct ==
    /\ wpc = "construct"
    /\ \E ok \in BOOLEAN :
        IF ok /\ present[windex]
        THEN /\ wNew' = new_instance(windex, storage_for(wasm_files[windex]))
             /\ wpc' = "insert"
             /\ UNCHANGED <<windex, wReport, ENGINES>>
        ELSE /\ wReport' = "install_error"
             /\ ENGINES' = AfterInstallError(wasm_files[windex])
             /\ WatchNextIndex
             /\ UNCHANGED wNew
    /\ UNCHANGED <<mtime, present, modified_files, sent>>
    /\ UNCHANGED <<sesvars, httpvars, nCalls, msgvars>>

\* insert_engine, second half: ENGINES.insert
WatchInsert ==
    /\ wpc = "insert"
    /\ ENGINES' = Inserted(wasm_files[windex], wNew)
    /\ wNew' = None
    /\ wReport' = "installed"
    /\ WatchNextIndex
    /\ UNCHANGED <<mtime, present, modified_files, sent>>
    /\ UNCHANGED <<sesvars, httpvars, nCalls, msgvars>>

\* after the for loop: sender.send(wasm_files[0].1), then sleep(1000ms)
WatchNotify ==
    /\ wpc = "notify" /\ sent < MaxPass
    /\ sent' = IF len > 0 THEN sent + 1 ELSE sent
    /\ wpc' = "poll" /\ windex' = 1
    /\ UNCHANGED <<mtime, present, ENGINES, modified_files, wNew, wReport>>
    /\ UNCHANGED <<sesvars, httpvars, nCalls, msgvars>>

Watcher == WatchPoll \/ WatchSleep100 \/ WatchConstruct \/ WatchInsert \/ WatchNotify

\* ------------------------------------------------------------ engine.call
\* what a call that ran on the instance of addr leaves in the registry: init
\* and handle may write a key, query writes nothing
AfterCall(addr, entry, written) ==
    IF entry \in {"init", "handle"} /\ addr \in DOMAIN ENGINES
    THEN [ENGINES EXCEPT ![addr].storage = @ \cup written]
    ELSE ENGINES

Writes == {{}} \cup {{k} : k \in Keys}

\* ---------------------------------------------------------------- session
\* receiver.recv() in prepare_command_line
SessRecv ==
    /\ spc = "recv"
    /\ \/ /\ sent > 0
          /\ sAddr' = wasm_files[1] /\ spc' = "start"
          /\ UNCHANGED sReport
       \/ /\ sent = 0 /\ wpc = "stopped"
          /\ sReport' = "watch_error" /\ spc' = "ended"
          /\ UNCHANGED sAddr
    /\ UNCHANGED sEngine
    /\ UNCHANGED <<need_switch, call_type, call_param, is_enum, msg_type, json_msg>>
    /\ UNCHANGED <<sysvars, httpvars, nCalls, msgvars>>

\* a new iteration of the loop, up to the readline of get_call_type
LoopAgain ==
    /\ spc' = "ChooseCallType"
    /\ need_switch' = (Cardinality(DOMAIN ENGINES) > 1)
    /\ call_type' = "" /\ call_param' = "" /\ is_enum' = FALSE /\ msg_type' = NoMap
    /\ json_msg' = None

\* start_simulate: ENGINES.get_mut(contract_addr)
SessStart ==
    /\ spc = "start"
    /\ IF sAddr \in DOMAIN ENGINES
       THEN LoopAgain /\ UNCHANGED sReport /\ sEngine' = ENGINES[sAddr].id
       ELSE /\ sReport' = "no_engine" /\ spc' = "ended"
            /\ UNCHANGED <<need_switch, call_type, call_param, is_enum, msg_type, json_msg>>
            /\ UNCHANGED sEngine
    /\ UNCHANGED sAddr
    /\ UNCHANGED <<sysvars, httpvars, nCalls, msgvars>>

\* faulty variant: no line is rejected
call_type_verdict_noreject(line, switch_offered) ==
    IF switch_offered /\ line = "switch" THEN "switch" ELSE "call"

\* get_call_type's verdict on the line typed: "wrong", "switch" or "call"
call_type_verdict(line, switch_offered) ==
    IF line # "init" /\ line # "handle" /\ line # "query"
       /\ switch_offered /\ line # "switch"
    THEN "wrong"
    ELSE IF switch_offered /\ line = "switch" THEN "switch"
    ELSE "call"

\* simulate_by_auto_analyze: the conventional root group of a call type
root_group(ct, analyzer) ==
    IF ct = "init" /\ "InitMsg" \in DOMAIN analyzer.map_of_member THEN "InitMsg"
    ELSE IF ct = "handle" /\ "HandleMsg" \in DOMAIN analyzer.map_of_member THEN "HandleMsg"
    ELSE IF ct = "query" /\ "QueryMsg" \in DOMAIN analyzer.map_of_member THEN "QueryMsg"
    ELSE ""

\* faulty variant: the enum flag is never found
enum_flag_off(group, analyzer) == FALSE

\* map_of_enum.get(&call_param).unwrap_or(&false)
enum_flag(group, analyzer) ==
    IF group \in DOMAIN analyzer.map_of_enum THEN analyzer.map_of_enum[group] ELSE FALSE

\* simulate_by_auto_analyze from `let is_enum` to the variant prompt, for the
\* group named by call_param
VariantStage(ct, group) ==
    LET analyzer == AnalyzerOf(sAddr)
        known == group \in DOMAIN analyzer.map_of_member
        variants == IF known THEN analyzer.map_of_member[group] ELSE NoMap
        n == Cardinality(DOMAIN variants)
    IN  IF ~known \/ n = 0
        THEN sReport' = "no_msg_type" /\ LoopAgain
        ELSE /\ call_type' = ct
             /\ is_enum' = enum_flag(group, analyzer)
             /\ msg_type' = variants
             /\ need_switch' = need_switch
             /\ json_msg' = json_msg
             /\ sReport' = "none"
             /\ IF n = 1
                THEN /\ call_param' = CHOOSE v \in DOMAIN variants : TRUE
                     /\ spc' = "CollectFields"
                ELSE /\ call_param' = ""
                     /\ spc' = "ChooseVariant"

\* get_call_type after its readline, and the branch on call_type that follows
SessCallType(line) ==
    /\ spc = "ChooseCallType"
    /\ LET verdict == call_type_verdict(line, need_switch)
           analyzer == AnalyzerOf(sAddr)
       IN  CASE verdict = "wrong" ->
                    sReport' = "wrong_call_type" /\ LoopAgain
             [] verdict = "switch" ->
                    /\ spc' = "ChooseContract" /\ sReport' = "none"
                    /\ UNCHANGED <<need_switch, call_type, call_param, is_enum, msg_type,
                                   json_msg>>
             [] OTHER ->
                    IF DOMAIN analyzer.map_of_member = {}
                    THEN /\ spc' = "InputJson" /\ sReport' = "none"
                         /\ call_type' = line
                         /\ UNCHANGED <<need_switch, call_param, is_enum, msg_type, json_msg>>
                    ELSE IF root_group(line, analyzer) # ""
                    THEN VariantStage(line, root_group(line, analyzer))
                    ELSE /\ spc' = "ChooseGroup" /\ sReport' = "none"
                         /\ call_type' = line
                         /\ UNCHANGED <<need_switch, call_param, is_enum, msg_type, json_msg>>
    /\ UNCHANGED sAddr
    /\ UNCHANGED sEngine
    /\ UNCHANGED <<sysvars, httpvars, nCalls, msgvars>>

\* faulty variant: the contract typed is not looked up
switch_target_unchecked(line) == line

\* get_call_type after the readline of the contract to switch to: the address
\* it returns as switch target, or "" when it returns None
switch_target(line) == IF line \notin DOMAIN ENGINES THEN "" ELSE line

\* the test `engine.env.contract.address.ne(..)` of the two loops on a switch
switch_leaves(target) ==
    IF DOMAIN AnalyzerOf(sAddr).map_of_member = {}
    THEN sAddr # target
    ELSE sAddr # call_param

SessContract(line) ==
    /\ spc = "ChooseContract"
    /\ LET target == switch_target(line)
       IN  IF target = ""
           THEN sReport' = "not_existed" /\ LoopAgain /\ UNCHANGED sAddr
           ELSE IF switch_leaves(target)
           THEN /\ spc' = "start" /\ sAddr' = target
                /\ UNCHANGED <<sReport, need_switch, call_type, call_param, is_enum, msg_type,
                               json_msg>>
           ELSE LoopAgain /\ UNCHANGED <<sAddr, sReport>>
    /\ UNCHANGED sEngine
    /\ UNCHANGED <<sysvars, httpvars, nCalls, msgvars>>

\* the readline of the message group, when the call type has no root group
SessGroup(line) ==
    /\ spc = "ChooseGroup"
    /\ VariantStage(call_type, line)
    /\ UNCHANGED sAddr
    /\ UNCHANGED sEngine
    /\ UNCHANGED <<sysvars, httpvars, nCalls, msgvars>>

\* the readline of the variant, and msg_type.get(call_param)
SessVariant(line) ==
    /\ spc = "ChooseVariant"
    /\ IF line \in DOMAIN msg_type
       THEN /\ call_param' = line /\ spc' = "CollectFields"
            /\ UNCHANGED <<sReport, need_switch, call_type, is_enum, msg_type, json_msg>>
       ELSE sReport' = "no_msg_type" /\ LoopAgain
    /\ UNCHANGED sAddr
    /\ UNCHANGED sEngine
    /\ UNCHANGED <<sysvars, httpvars, nCalls, msgvars>>

\* the instances a use of the loop's `engine` may run on: the reference was
\* taken by start_simulate and is used after ENGINES.insert may have dropped
\* its instance, so it reaches the instance it was taken from or the one the
\* registry holds now
engine_reaches == {sEngine, ENGINES[sAddr].id}

\* input_message, then engine.call(call_type, json_msg) begins
SessCollect(lines) ==
    /\ spc = "CollectFields" /\ nCalls < MaxCalls
    /\ Len(lines) = lines_needed(msg_type[call_param], AnalyzerOf(sAddr))
    /\ json_msg' = [entry |-> call_type,
                    msg |-> input_message(call_param, msg_type[call_param],
                                          AnalyzerOf(sAddr), is_enum, lines)]
    /\ spc' = "call" /\ nCalls' = nCalls + 1
    /\ sEngine' \in engine_reaches
    /\ UNCHANGED <<sAddr, sReport, need_switch, call_type, call_param, is_enum, msg_type>>
    /\ UNCHANGED <<sysvars, httpvars, msgvars>>

\* simulate_by_json: the readline of the payload, then engine.call begins
SessJson(line) ==
    /\ spc = "InputJson" /\ nCalls < MaxCalls
    /\ json_msg' = [entry |-> call_type, msg |-> line]
    /\ spc' = "call" /\ nCalls' = nCalls + 1
    /\ sEngine' \in engine_reaches
    /\ UNCHANGED <<sAddr, sReport, need_switch, call_type, call_param, is_enum, msg_type>>
    /\ UNCHANGED <<sysvars, httpvars, msgvars>>

\* engine.call returns to the loop
SessCallEnd ==
    /\ spc = "call"
    /\ \E written \in Writes :
          ENGINES' = IF sEngine = ENGINES[sAddr].id
                     THEN AfterCall(sAddr, json_msg.entry, written)
                     ELSE ENGINES
    /\ LoopAgain
    /\ UNCHANGED <<sAddr, sReport>>
    /\ UNCHANGED <<mtime, present, modified_files, wpc, windex, wNew, wReport, sent>>
    /\ UNCHANGED sEngine
    /\ UNCHANGED <<httpvars, nCalls, msgvars>>

\* --------------------------------------------------------------- call API
B64Alphabet ==
    << "A","B","C","D","E","F","G","H","I","J","K","L","M","N","O","P",
       "Q","R","S","T","U","V","W","X","Y","Z","a","b","c","d","e","f",
       "g","h","i","j","k","l","m","n","o","p","q","r","s","t","u","v",
       "w","x","y","z","0","1","2","3","4","5","6","7","8","9","+","/" >>

IsB64(c) == \E i \in 1..64 : B64Alphabet[i] = c
B64Val(c) == (CHOOSE i \in 1..64 : B64Alphabet[i] = c) - 1

\* number of trailing '=' of a text
RECURSIVE PadLen(_)
PadLen(s) == IF s # <<>> /\ Last(s) = "=" THEN 1 + PadLen(Pop(s)) ELSE 0

\* bytes of a run of sextets; the last group may hold 2 or 3 sextets
RECURSIVE B64Bytes(_)
B64Bytes(v) ==
    IF Len(v) >= 4
    THEN LET w == ((v[1] * 64 + v[2]) * 64 + v[3]) * 64 + v[4]
         IN  <<w \div 65536, (w \div 256) % 256, w % 256>>
             \o B64Bytes(SubSeq(v, 5, Len(v)))
    ELSE IF Len(v) = 3
    THEN LET w == (v[1] * 64 + v[2]) * 64 + v[3]
         IN  <<w \div 1024, (w \div 4) % 256>>
    ELSE IF Len(v) = 2
    THEN <<(v[1] * 64 + v[2]) \div 16>>
    ELSE <<>>

\* bits of the last group that no byte takes
B64Trailing(v) ==
    IF Len(v) % 4 = 3 THEN v[Len(v)] % 4
    ELSE IF Len(v) % 4 = 2 THEN v[Len(v)] % 16
    ELSE 0

\* base64::decode(msg): [ok, bytes]
base64_decode(msg) ==
    LET pad == PadLen(msg)
        syms == SubSeq(msg, 1, Len(msg) - pad)
    IN  IF Len(msg) % 4 # 0 \/ pad > 2 \/ (\E i \in 1..Len(syms) : ~IsB64(syms[i]))
        THEN [ok |-> FALSE, bytes |-> <<>>]
        ELSE LET v == [i \in 1..Len(syms) |-> B64Val(syms[i])]
             IN  IF Len(v) % 4 = 1 \/ B64Trailing(v) # 0
                 THEN [ok |-> FALSE, bytes |-> <<>>]
                 ELSE [ok |-> TRUE, bytes |-> B64Bytes(v)]

IsCont(b) == b >= 128 /\ b <= 191

\* String::from_utf8(input) succeeds
RECURSIVE from_utf8_ok(_)
from_utf8_ok(b) ==
    IF b = <<>> THEN TRUE
    ELSE IF b[1] < 128 THEN from_utf8_ok(Tail(b))
    ELSE IF b[1] >= 194 /\ b[1] <= 223
    THEN Len(b) >= 2 /\ IsCont(b[2]) /\ from_utf8_ok(SubSeq(b, 3, Len(b)))
    ELSE IF b[1] >= 224 /\ b[1] <= 239
    THEN Len(b) >= 3 /\ IsCont(b[2]) /\ IsCont(b[3])
         /\ (b[1] = 224 => b[2] >= 160) /\ (b[1] = 237 => b[2] <= 159)
         /\ from_utf8_ok(SubSeq(b, 4, Len(b)))
    ELSE IF b[1] >= 240 /\ b[1] <= 244
    THEN Len(b) >= 4 /\ IsCont(b[2]) /\ IsCont(b[3]) /\ IsCont(b[4])
         /\ (b[1] = 240 => b[2] >= 144) /\ (b[1] = 244 => b[2] <= 143)
         /\ from_utf8_ok(SubSeq(b, 5, Len(b)))
    ELSE FALSE

\* faulty variant: the decoded bytes are taken for text without the UTF-8 check
call_engine_lossy(contract_addr, msg) ==
    IF contract_addr \notin DOMAIN ENGINES
    THEN [ok |-> FALSE, err |-> "No such contract", param |-> <<>>]
    ELSE LET input == base64_decode(msg)
         IN  IF ~input.ok
             THEN [ok |-> FALSE, err |-> "base64", param |-> <<>>]
             ELSE [ok |-> TRUE, err |-> "", param |-> input.bytes]

\* call_engine up to engine.call: Err(..) or the param handed to engine.call
call_engine(contract_addr, msg) ==
    IF contract_addr \notin DOMAIN ENGINES
    THEN [ok |-> FALSE, err |-> "No such contract", param |-> <<>>]
    ELSE LET input == base64_decode(msg)
         IN  IF ~input.ok
             THEN [ok |-> FALSE, err |-> "base64", param |-> <<>>]
             ELSE IF ~from_utf8_ok(input.bytes)
             THEN [ok |-> FALSE, err |-> "utf8", param |-> <<>>]
             ELSE [ok |-> TRUE, err |-> "", param |-> input.bytes]

\* init_contract / handle_contract / query_contract: the route is entered
\* and call_engine runs up to engine.call
HttpRequest(address, func_type, msg) ==
    /\ hpc = "idle"
    /\ LET r == call_engine(address, msg)
       IN  IF r.ok
           THEN /\ nCalls < MaxCalls
                /\ hpc' = "call" /\ nCalls' = nCalls + 1
                /\ hReq' = [address |-> address, func_type |-> func_type, param |-> r.param]
                /\ hResp' = None
           ELSE /\ hResp' = [kind |-> "error", body |-> r.err]
                /\ hReq' = None
                /\ UNCHANGED <<hpc, nCalls>>
    /\ qResp' = None
    /\ UNCHANGED <<sysvars, sesvars, msgvars>>

\* engine.call returns and the route answers {"data": ..}
HttpCallEnd ==
    /\ hpc = "call"
    /\ \E written \in Writes : ENGINES' = AfterCall(hReq.address, hReq.func_type, written)
    /\ hResp' = [kind |-> "data", body |-> "result"]
    /\ hpc' = "idle"
    /\ hReq' = None
    /\ qResp' = None
    /\ UNCHANGED <<mtime, present, modified_files, wpc, windex, wNew, wReport, sent>>
    /\ UNCHANGED <<sesvars, nCalls, msgvars>>

\* ---------------------------------------------------------------- querier
\* a WasmQuery: the Smart shape names a contract, every other shape is Raw here
WasmQuery(kind, contract_addr) == [kind |-> kind, contract_addr |-> contract_addr]

QuerierResult(ok, err, addr, queried) ==
    [ok |-> ok, err |-> err, addr |-> addr, queried |-> queried]

\* faulty variant: the target is taken from the registry without the None arm
query_wasm_nolookup(request, result_ok) ==
    IF request.kind = "Smart"
    THEN IF result_ok
         THEN QuerierResult(TRUE, "", "", request.contract_addr)
         ELSE QuerierResult(FALSE, "InvalidResponse", "", request.contract_addr)
    ELSE QuerierResult(FALSE, "UnsupportedRequest", "", "")

\* query_wasm: `queried` is the address whose instance call_query ran on, ""
\* when it ran on none; result_ok is whether call_query returned Ok
query_wasm(request, result_ok) ==
    IF request.kind = "Smart"
    THEN IF request.contract_addr \notin DOMAIN ENGINES
         THEN QuerierResult(FALSE, "NoSuchContract", request.contract_addr, "")
         ELSE IF result_ok
         THEN QuerierResult(TRUE, "", "", request.contract_addr)
         ELSE QuerierResult(FALSE, "InvalidResponse", "", request.contract_addr)
    ELSE QuerierResult(FALSE, "UnsupportedRequest", "", "")

\* the contract that runs the call API's call makes an outbound query and
\* the engine calls back query_wasm
QueryWasm(request) ==
    /\ hpc = "call"
    /\ \E result_ok \in BOOLEAN : qResp' = query_wasm(request, result_ok)
    /\ UNCHANGED <<hpc, hReq, hResp>>
    /\ UNCHANGED <<sysvars, sesvars, nCalls, msgvars>>

\* ------------------------------------------------------- specifications
\* what the operator types
CallTypeLines == {"init", "handle", "query", "switch", "quit"}
ContractLines == {"a1", "a2", Stranger}
GroupLines == {"HandleMsg", "QueryMsg", "Nope"}
VariantLines == {"get_count", "get_memo", "nope"}
ValueLines == {<<>>, <<"1">>}
JsonLines == {<<"{", "}">>}

\* what a client of the call API sends: "e30=" is {}, "/w==" is the byte FF,
\* "!!!!" is no base64
HttpAddresses == {"a1", Stranger}
HttpMsgs == {<<"e", "3", "0", "=">>, <<"/", "w", "=", "=">>, <<"!", "!", "!", "!">>}

\* what a running contract asks of the querier
QueryRequests ==
    {WasmQuery("Smart", "a1"), WasmQuery("Smart", "a2"), WasmQuery("Smart", Stranger),
     WasmQuery("Raw", "a1")}

SeqsOf(S, n) == [1..n -> S]

Http(A, F, M) ==
    \/ \E address \in A, func_type \in F, msg \in M : HttpRequest(address, func_type, msg)
    \/ HttpCallEnd

\* the whole process: watcher thread, session loop and call API worker, with
\* an operator who calls handle or switches, and a client who calls handle
Next ==
    \/ Watcher
    \/ \E i \in 1..len : Touch(i)
    \/ SessRecv
    \/ SessStart
    \/ \E line \in {"handle", "switch"} : SessCallType(line)
    \/ \E line \in {"a1", "a2"} : SessContract(line)
    \/ SessCollect(<<>>)
    \/ \E line \in JsonLines : SessJson(line)
    \/ SessCallEnd
    \/ Http({"a1"}, {"handle"}, {<<"e", "3", "0", "=">>})

Spec == Init /\ [][Next]_vars

\* the four parties that use the registry, when only the first artifact is
\* rewritten: the watcher, an operator who calls handle or switches, a client
\* who calls handle, and the called contract querying the other one
NextReload ==
    \/ Watcher
    \/ Touch(1)
    \/ SessRecv
    \/ SessStart
    \/ \E line \in {"handle", "switch"} : SessCallType(line)
    \/ \E line \in {"a1", "a2"} : SessContract(line)
    \/ SessCollect(<<>>)
    \/ \E line \in JsonLines : SessJson(line)
    \/ SessCallEnd
    \/ Http({"a1"}, {"handle"}, {<<"e", "3", "0", "=">>})
    \/ QueryWasm(WasmQuery("Smart", "a2"))

SpecReload == Init /\ [][NextReload]_vars

\* the session loop with everything the operator may type, over the
\* registry the watcher builds from artifacts that do not change
NextSession ==
    \/ WatchPoll \/ WatchConstruct \/ WatchInsert \/ WatchNotify
    \/ SessRecv
    \/ SessStart
    \/ \E line \in CallTypeLines : SessCallType(line)
    \/ \E line \in ContractLines : SessContract(line)
    \/ \E line \in GroupLines : SessGroup(line)
    \/ \E line \in VariantLines : SessVariant(line)
    \/ \E n \in 0..1 : \E lines \in SeqsOf(ValueLines, n) : SessCollect(lines)
    \/ \E line \in JsonLines : SessJson(line)
    \/ SessCallEnd

SpecSession == Init /\ [][NextSession]_vars

\* the call API with everything a client may send, over the registry the
\* watcher builds, and rebuilds when the first artifact changes
NextHttp ==
    \/ Watcher
    \/ Touch(1)
    \/ Http(HttpAddresses, EntryPoints, HttpMsgs)
    \/ \E request \in QueryRequests : QueryWasm(request)

SpecHttp == Init /\ [][NextHttp]_vars

\* the watcher over artifacts that are rewritten and deleted, with the
\* session startup that waits for it
NextWatch ==
    \/ Watcher
    \/ \E i \in 1..len : Touch(i)
    \/ \E i \in 1..len : Remove(i)
    \/ SessRecv
    \/ SessStart

SpecWatch == Init /\ [][NextWatch]_vars

\* prepare_command_line with whatever load_artifacts returned: both
\* artifacts, the run file alone, or nothing (Err(_) => vec![])
InitStartup ==
    /\ \E n \in 0..Len(wasm_files) :
          /\ mtime = [i \in 1..n |-> 1]
          /\ present = [i \in 1..n |-> TRUE]
          /\ modified_files = [i \in 1..n |-> 0]
    /\ ENGINES = NoMap
    /\ wpc = "poll" /\ windex = 1 /\ wNew = None /\ wReport = "none"
    /\ sent = 0
    /\ spc = "recv" /\ sAddr = "" /\ need_switch = FALSE
    /\ call_type = "" /\ call_param = "" /\ is_enum = FALSE /\ msg_type = NoMap
    /\ json_msg = None /\ sReport = "none" /\ sEngine = 0
    /\ hpc = "idle" /\ hReq = None /\ hResp = None /\ qResp = None
    /\ nCalls = 0
    /\ IdleMsg

\* the watcher thread and the main thread are both scheduled again and
\* again: every step of either that stays possible is taken
SpecStartup ==
    /\ InitStartup /\ [][NextWatch]_vars
    /\ WF_vars(WatchPoll) /\ WF_vars(WatchSleep100) /\ WF_vars(WatchConstruct)
    /\ WF_vars(WatchInsert) /\ WF_vars(WatchNotify)
    /\ WF_vars(SessRecv) /\ WF_vars(SessStart)

\* the message constructor alone: every field list of up to MaxFields fields
\* over MsgTypes, as enum variant and as plain struct, with every choice of
\* typed lines
MsgNames == <<"a", "b", "c", "e">>
MsgTypes == {T_int, T_optstring, T_optalias, T_Coin, T_Opts, T_Empty, T_optCoin}
MsgLines == {<<>>, <<"1">>, <<QUOTE, NEWLINE>>}

MsgFieldLists ==
    UNION {{[i \in 1..n |-> Member(MsgNames[i], ts[i])] : ts \in [1..n -> MsgTypes]} :
              n \in 0..MaxFields}

InitMsg ==
    /\ mtime = [i \in 1..Len(wasm_files) |-> 1]
    /\ present = [i \in 1..Len(wasm_files) |-> TRUE]
    /\ ENGINES = NoMap
    /\ modified_files = [i \in 1..Len(wasm_files) |-> 0]
    /\ wpc = "poll" /\ windex = 1 /\ wNew = None /\ wReport = "none"
    /\ sent = 0
    /\ spc = "recv" /\ sAddr = "" /\ need_switch = FALSE
    /\ call_type = "" /\ call_param = "" /\ is_enum = FALSE /\ msg_type = NoMap
    /\ json_msg = None /\ sReport = "none" /\ sEngine = 0
    /\ hpc = "idle" /\ hReq = None /\ hResp = None /\ qResp = None
    /\ nCalls = 0
    /\ mpc = "ready" /\ mName = "v"
    /\ mMembers \in MsgFieldLists
    /\ mIsEnum \in BOOLEAN
    /\ mLines = <<>> /\ mOut = <<>>

\* input_message(name, members, engine, is_enum) with the lines typed
BuildMessage(lines) ==
    /\ mpc = "ready"
    /\ Len(lines) = lines_needed(mMembers, MsgAnalyzer)
    /\ mLines' = lines
    /\ mOut' = input_message(mName, mMembers, MsgAnalyzer, mIsEnum, lines)
    /\ mpc' = "built"
    /\ UNCHANGED <<mName, mMembers, mIsEnum>>
    /\ UNCHANGED <<sysvars, sesvars, httpvars, nCalls>>

NextMsg ==
    \E n \in 0..(2 * MaxFields) : \E lines \in SeqsOf(MsgLines, n) : BuildMessage(lines)

SpecMsg == InitMsg /\ [][NextMsg]_vars

\* ------------------------------------------------------------ JSON syntax
\* A recogniser of JSON objects over units: a literal is the unit "1", a
\* string runs from a quote to the next unescaped quote and holds no raw
\* newline. Each Parse operator returns the index after what it read, 0
\* when the text does not parse.
At(t, i) == IF i \in 1..Len(t) THEN t[i] ELSE "<eof>"

RECURSIVE ParseChars(_, _)
ParseChars(t, i) ==
    IF i > Len(t) \/ t[i] = NEWLINE THEN 0
    ELSE IF t[i] = QUOTE THEN i + 1
    ELSE IF t[i] = BACKSLASH
    THEN (IF At(t, i + 1) \in {QUOTE, BACKSLASH} THEN ParseChars(t, i + 2) ELSE 0)
    ELSE ParseChars(t, i + 1)

ParseString(t, i) == IF At(t, i) = QUOTE THEN ParseChars(t, i + 1) ELSE 0

RECURSIVE ParseValue(_, _)
RECURSIVE ParseMembers(_, _)
ParseValue(t, i) ==
    IF At(t, i) = "1" THEN i + 1
    ELSE IF At(t, i) = QUOTE THEN ParseString(t, i)
    ELSE IF At(t, i) = "{"
    THEN (IF At(t, i + 1) = "}" THEN i + 2 ELSE ParseMembers(t, i + 1))
    ELSE 0

ParseMembers(t, i) ==
    LET k == ParseString(t, i)
        v == IF k # 0 /\ At(t, k) = ":" THEN ParseValue(t, k + 1) ELSE 0
    IN  IF v = 0 THEN 0
        ELSE IF At(t, v) = "," THEN ParseMembers(t, v + 1)
        ELSE IF At(t, v) = "}" THEN v + 1
        ELSE 0

IsJsonObject(t) == At(t, 1) = "{" /\ ParseValue(t, 1) = Len(t) + 1

\* nesting depth after the first i units, counting braces
RECURSIVE Depth(_, _)
Depth(t, i) ==
    IF i = 0 THEN 0
    ELSE Depth(t, i - 1) + (IF t[i] = "{" THEN 1 ELSE IF t[i] = "}" THEN -1 ELSE 0)

BracesMatched(t) ==
    /\ Depth(t, Len(t)) = 0
    /\ \A i \in 1..(Len(t) - 1) : Depth(t, i) > 0

NoDanglingSeparator(t) == \A i \in 1..(Len(t) - 1) : ~(t[i] = "," /\ t[i + 1] = "}")

\* ------------------------------------------------- claims: message constructor
\* the type each line is read for, in reading order
RECURSIVE line_types(_, _)
line_types(members, analyzer) ==
    IF members = <<>> THEN <<>>
    ELSE LET t == Head(members).member_def
             own == IF t \in DOMAIN analyzer.map_of_struct
                       /\ Len(analyzer.map_of_struct[t]) > 0
                    THEN [i \in 1..Len(analyzer.map_of_struct[t]) |->
                             analyzer.map_of_struct[t][i][2]]
                    ELSE <<t>>
         IN  own \o line_types(Tail(members), analyzer)

IsStringType(t, analyzer) ==
    LET b == StripSuffix(t).name
    IN  (IF b \in DOMAIN analyzer.map_of_basetype THEN analyzer.map_of_basetype[b] ELSE b)
        = T_string

\* line i is left empty for an optional scalar: the field is omitted
Omitted(types, lines, i) == lines[i] = <<>> /\ StripSuffix(types[i]).optional

\* the operator typed what each field's type asks for: an empty line only for
\* an optional field, a JSON literal for a field emitted verbatim
WellSupplied(members, lines, analyzer) ==
    LET types == line_types(members, analyzer)
    IN  \A i \in 1..Len(lines) :
            \/ Omitted(types, lines, i)
            \/ lines[i] # <<>> /\ IsStringType(types[i], analyzer)
            \/ lines[i] = <<"1">>

\* C5: for every combination of present and omitted optional fields, the
\* payload has no dangling separator and is syntactically valid JSON, with
\* every opening brace present and matched
C5_OptionalsKeepJsonValid ==
    (mpc = "built" /\ WellSupplied(mMembers, mLines, MsgAnalyzer))
        => /\ NoDanglingSeparator(mOut)
           /\ BracesMatched(mOut)
           /\ IsJsonObject(mOut)

\* reading a payload back: the keys it holds, each with the scalar text that
\* follows its colon (empty when an object follows), in the order they stand
NameUnits == {MsgNames[i] : i \in 1..Len(MsgNames)} \cup {"d", "n", "p", "q", "v"}
ValueUnits == {"1", QUOTE, BACKSLASH, NEWLINE}

RECURSIVE RunFrom(_, _)
RunFrom(t, i) == IF At(t, i) \in ValueUnits THEN <<t[i]>> \o RunFrom(t, i + 1) ELSE <<>>

RECURSIVE Unescape(_)
Unescape(s) ==
    IF s = <<>> THEN <<>>
    ELSE IF Head(s) = BACKSLASH /\ Len(s) >= 2 THEN <<s[2]>> \o Unescape(SubSeq(s, 3, Len(s)))
    ELSE <<Head(s)>> \o Unescape(Tail(s))

\* the value a run of text denotes: the content of a quoted string, unescaped,
\* or the text itself
Denoted(run) ==
    IF Len(run) >= 2 /\ Head(run) = QUOTE /\ Last(run) = QUOTE
    THEN Unescape(SubSeq(run, 2, Len(run) - 1))
    ELSE run

RECURSIVE PairsFrom(_, _)
PairsFrom(t, i) ==
    IF i > Len(t) THEN <<>>
    ELSE IF t[i] \in NameUnits
    THEN << <<t[i], Denoted(RunFrom(t, i + 3))>> >> \o PairsFrom(t, i + 1)
    ELSE PairsFrom(t, i + 1)

Pairs(t) == PairsFrom(t, 1)

WithoutNewlines(line) == SelectSeq(line, LAMBDA u : u # NEWLINE)

\* what the claim expects of one scalar field and the line typed for it
ExpectedScalar(name, type, line, analyzer) ==
    IF line = <<>> /\ StripSuffix(type).optional THEN <<>>
    ELSE IF IsStringType(type, analyzer) THEN << <<name, WithoutNewlines(line)>> >>
    ELSE << <<name, line>> >>

RECURSIVE ExpectedMembers(_, _, _)
ExpectedMembers(st, lines, analyzer) ==
    IF st = <<>> THEN <<>>
    ELSE ExpectedScalar(Head(st)[1], Head(st)[2], Head(lines), analyzer)
         \o ExpectedMembers(Tail(st), Tail(lines), analyzer)

RECURSIVE ExpectedPairs(_, _, _)
ExpectedPairs(members, lines, analyzer) ==
    IF members = <<>> THEN <<>>
    ELSE LET f == Head(members)
             t == f.member_def
             n == lines_of_type(t, analyzer)
             own == IF t \notin DOMAIN analyzer.map_of_struct
                    THEN ExpectedScalar(f.member_name, t, Head(lines), analyzer)
                    ELSE IF Len(analyzer.map_of_struct[t]) = 0
                    THEN << <<f.member_name, Head(lines)>> >>
                    ELSE << <<f.member_name, <<>> >> >>
                         \o ExpectedMembers(analyzer.map_of_struct[t], lines, analyzer)
         IN  own \o ExpectedPairs(Tail(members), SubSeq(lines, n + 1, Len(lines)), analyzer)

\* C6: for every field list, the payload holds the key of each field that is
\* not omitted exactly once and in declared order, each with the value of the
\* line read for it in that order, and no separator before a closing brace
C6_FieldsOnceInOrder ==
    mpc = "built" =>
        /\ Pairs(mOut) = (IF mIsEnum THEN << <<mName, <<>> >> >> ELSE <<>>)
                         \o ExpectedPairs(mMembers, mLines, MsgAnalyzer)
        /\ NoDanglingSeparator(mOut)

\* C6 witness: two fields built, the second one a struct with its last member
\* omitted
C6_TwoFieldsBuilt ==
    /\ mpc = "built" /\ Len(mMembers) = 2
    /\ mMembers[2].member_def = T_Coin
    /\ mLines[Len(mLines)] = <<>>
    /\ Len(Pairs(mOut)) = 3

\* C7: an enum group's payload is {"v":{..}}, one outer object whose single key
\* is the variant; a non-enum group's payload is {..} with no wrapping key
C7_EnumShape ==
    mpc = "built" =>
        IF mIsEnum
        THEN /\ Len(mOut) >= 8
             /\ SubSeq(mOut, 1, 6) = <<"{", QUOTE, mName, QUOTE, ":", "{">>
             /\ SubSeq(mOut, Len(mOut) - 1, Len(mOut)) = <<"}", "}">>
             /\ \A i \in 6..(Len(mOut) - 2) : Depth(mOut, i) >= 2
        ELSE /\ Len(mOut) >= 2
             /\ mOut[1] = "{" /\ Last(mOut) = "}"
             /\ \A i \in 1..(Len(mOut) - 1) : Depth(mOut, i) >= 1
             /\ \A i \in 1..Len(mOut) : mOut[i] # mName

\* the struct a field's type names once the optional marker is stripped
BaseStruct(type_name, analyzer) ==
    LET b == StripSuffix(type_name).name
    IN  IF b \in DOMAIN analyzer.map_of_struct THEN analyzer.map_of_struct[b] ELSE <<>>

RECURSIVE ValuesRequested(_, _)
ValuesRequested(members, analyzer) ==
    IF members = <<>> THEN 0
    ELSE (IF Len(BaseStruct(Head(members).member_def, analyzer)) > 0
          THEN Len(BaseStruct(Head(members).member_def, analyzer)) ELSE 1)
         + ValuesRequested(Tail(members), analyzer)

OpensObject(t, name) ==
    \E i \in 1..(Len(t) - 4) : SubSeq(t, i, i + 4) = <<QUOTE, name, QUOTE, ":", "{">>

\* C18: with the optional marker stripped from a field's type, a field whose
\* type names a struct with members has one value requested per member and is
\* emitted as the nested object "name":{..}; every other field has one value
\* requested
C18_StructFields ==
    mpc = "built" =>
        /\ Len(mLines) = ValuesRequested(mMembers, MsgAnalyzer)
        /\ \A i \in 1..Len(mMembers) :
               Len(BaseStruct(mMembers[i].member_def, MsgAnalyzer)) > 0
                   => OpensObject(mOut, mMembers[i].member_name)

\* ------------------------------------------------- claims: registry, watcher
Addresses == {wasm_files[i] : i \in 1..len}

\* the watcher is between ENGINES.get_mut(contract_addr) and the end of
\* ENGINES.insert for an address that has an instance
Replacing(a) ==
    /\ wpc \in {"sleep100", "construct", "insert"}
    /\ wasm_files[windex] = a
    /\ a \in DOMAIN ENGINES

SessionCalls(a) == spc = "call" /\ sAddr = a
ApiCalls(a) == hpc = "call" /\ hReq.address = a

\* C1: no call on the instance of an address is in flight while the watcher
\* replaces the registry entry of that address
C1_CallExcludesReplace ==
    \A a \in Addresses : ~(Replacing(a) /\ (SessionCalls(a) \/ ApiCalls(a)))

\* C2: two calls are never in flight at once on the instance of one address
C2_OneCallPerInstance ==
    \A a \in Addresses : ~(SessionCalls(a) /\ ApiCalls(a))

\* C3: a rebuild of an address that has an instance constructs the new
\* instance with the storage the old one holds at that moment, and the insert
\* puts exactly that instance into the registry
C3_ReloadKeepsStorage ==
    [][ LET a == wasm_files[windex]
        IN  /\ (wpc = "construct" /\ wpc' = "insert" /\ a \in DOMAIN ENGINES)
                => wNew'.storage = ENGINES[a].storage
            /\ (wpc = "insert" /\ wpc' # "insert")
                => (a \in DOMAIN ENGINES' /\ ENGINES'[a] = wNew) ]_vars

\* C3 witness: the registry holds a second instance of a1 whose storage has
\* the key a call wrote before the reload
C3_ReloadedWithStorage ==
    /\ "a1" \in DOMAIN ENGINES
    /\ ENGINES["a1"].id = 2
    /\ ENGINES["a1"].storage = {"k"}
    /\ wReport = "installed" /\ windex = 2

\* C4: when new_instance fails, the step of insert_engine leaves the whole
\* registry as it was, the failure is reported and the watcher goes on
C4_FailedInstallKeepsRegistry ==
    [][ (wpc = "construct" /\ wpc' \notin {"construct", "insert"})
            => /\ ENGINES' = ENGINES
               /\ wReport' = "install_error"
               /\ wpc' \in {"poll", "notify"} ]_vars

\* C4 witness: the rebuild of a1 for its second artifact version has failed
\* and the registry still holds the instance built from the first
C4_FailedRebuildKept ==
    /\ wpc = "poll" /\ windex = 2 /\ wReport = "install_error"
    /\ modified_files[1] = 2
    /\ "a1" \in DOMAIN ENGINES /\ ENGINES["a1"].module = 1
    /\ ENGINES["a1"].storage = {"k"}

\* C11: the readiness notification is sent once and no later pass of the
\* watcher sends it again
C11_ReadinessOneShot == sent <= 1

\* C12: the watcher never stops polling, whatever rebuild has failed
C12_WatcherKeepsPolling == wpc # "stopped"

\* C13: a failed artifact only omits its own address: once the first pass has
\* registered some artifact, session startup does not end in an error
C13_OthersServed == spc = "ended" => DOMAIN ENGINES = {}

\* a step of the watcher thread
WatcherStep == wpc' # wpc \/ windex' # windex

\* C17: a poll that finds the recorded time of its artifact unchanged goes on
\* to the next artifact and leaves the registry as it is; a rebuild is entered
\* only from a poll that finds it changed, which records the time found; each
\* entry makes one attempt; a failed attempt keeps the recorded time; and the
\* watcher changes the registry only by the insert that ends a rebuild
C17_RebuildOnlyOnChange ==
    /\ [][ (wpc = "poll" /\ WatcherStep /\ present[windex]
            /\ mtime[windex] = modified_files[windex])
              => /\ wpc' \in {"poll", "notify"}
                 /\ ENGINES' = ENGINES /\ modified_files' = modified_files
                 /\ wNew' = wNew /\ wReport' = wReport ]_vars
    /\ [][ (wpc = "poll" /\ wpc' \in {"sleep100", "construct"})
              => /\ mtime[windex] # modified_files[windex]
                 /\ modified_files'[windex] = mtime[windex]
                 /\ windex' = windex /\ ENGINES' = ENGINES ]_vars
    /\ [][ (wpc' \in {"sleep100", "construct", "insert"} /\ wpc' # wpc)
              => \/ wpc = "poll" /\ wpc' \in {"sleep100", "construct"}
                 \/ wpc = "sleep100" /\ wpc' = "construct"
                 \/ wpc = "construct" /\ wpc' = "insert" ]_vars
    /\ [][ (wpc = "construct" /\ WatcherStep /\ wpc' # "insert")
              => /\ wReport' = "install_error"
                 /\ modified_files' = modified_files
                 /\ windex' = windex + 1 /\ wpc' \in {"poll", "notify"} ]_vars
    /\ [][ (WatcherStep /\ ENGINES' # ENGINES) => wpc = "insert" ]_vars

\* C17 witness: the rebuild of a1 for its second artifact version has failed,
\* and the pass after it has gone over both artifacts without a rebuild
C17_FailedNotRetried ==
    /\ wpc = "notify" /\ sent = MaxPass
    /\ wReport = "install_error"
    /\ mtime[1] = 2 /\ modified_files[1] = 2
    /\ "a1" \in DOMAIN ENGINES /\ ENGINES["a1"].module = 1 /\ ENGINES["a1"].id = 1

\* ---------------------------------------------------------- claims: session
\* C8: a switch to an address that is not registered reports it, dispatches
\* no call, keeps the active contract and the registry, and the loop is back
\* at the call type prompt
C8_SwitchUnregistered ==
    [][ \A line \in ContractLines :
            (SessContract(line) /\ line \notin DOMAIN ENGINES)
                => /\ sReport' = "not_existed"
                   /\ spc' = "ChooseCallType"
                   /\ sAddr' = sAddr
                   /\ ENGINES' = ENGINES
                   /\ nCalls' = nCalls /\ hpc' = hpc ]_vars

\* C8 witness: with a1 active and both contracts registered, the loop has
\* reported an unknown contract and prompts for the call type again
C8_UnknownReported ==
    /\ sReport = "not_existed" /\ spc = "ChooseCallType"
    /\ sAddr = "a1" /\ DOMAIN ENGINES = {"a1", "a2"}

IncrementPayload == <<"{", QUOTE, "increment", QUOTE, ":", "{", "}", "}">>

HasRoot(ct) ==
    /\ ct \in EntryPoints
    /\ DOMAIN AnalyzerOf(sAddr).map_of_member # {}
    /\ root_group(ct, AnalyzerOf(sAddr)) # ""

\* C9: a call type whose root group the schema declares goes on without the
\* group prompt; a group with one variant goes on without the variant prompt;
\* and on a1, whose HandleMsg is an enum with the sole variant increment,
\* handle dispatches the one call (handle, {"increment":{}})
C9_RootAndSoleVariant ==
    /\ [][ \A line \in CallTypeLines :
              (SessCallType(line) /\ call_type_verdict(line, need_switch) = "call"
               /\ HasRoot(line))
                  => /\ spc' \in {"CollectFields", "ChooseVariant"}
                     /\ msg_type' =
                            AnalyzerOf(sAddr).map_of_member[root_group(line, AnalyzerOf(sAddr))]
                     /\ (Cardinality(DOMAIN msg_type') = 1
                            => spc' = "CollectFields" /\ call_param' \in DOMAIN msg_type')
                     /\ (line = "handle" /\ sAddr = "a1"
                            => spc' = "CollectFields" /\ call_param' = "increment") ]_vars
    /\ [][ (spc = "CollectFields" /\ spc' = "call" /\ sAddr = "a1"
            /\ call_type = "handle")
              => /\ json_msg' = [entry |-> "handle", msg |-> IncrementPayload]
                 /\ nCalls' = nCalls + 1 ]_vars

\* C9 witness: the call (handle, {"increment":{}}) is in flight on a1
C9_IncrementDispatched ==
    /\ spc = "call" /\ sAddr = "a1"
    /\ json_msg = [entry |-> "handle", msg |-> IncrementPayload]

\* C14: a switch to a registered address other than the active contract
\* returns to start_simulate_forever, which goes on with that address; a
\* switch to the active contract itself does not return but repeats the loop
\* from the call type prompt
C14_SwitchRegistered ==
    [][ \A line \in ContractLines :
            (SessContract(line) /\ line \in DOMAIN ENGINES)
                => IF line # sAddr
                   THEN spc' = "start" /\ sAddr' = line
                   ELSE spc' = "ChooseCallType" /\ sAddr' = sAddr ]_vars

\* C15: every call the session loop dispatches has an entry point among init,
\* handle and query
C15_EntryPointsOnly == spc = "call" => json_msg.entry \in EntryPoints

Prompts ==
    {"ChooseCallType", "ChooseContract", "ChooseGroup", "ChooseVariant",
     "CollectFields", "InputJson"}

\* C16: no prompt and no call outcome ends the session: a call type that is
\* rejected, a group or variant that is not found, a switch that fails and a
\* call that returns all lead back to the call type prompt; a switch that
\* succeeds activates a registered address; and the session ends only when
\* start_simulate does not find the address it is given
C16_SessionGoesOn ==
    /\ [][ (spc \in (Prompts \cup {"call"}))
              => (spc' \in (Prompts \cup {"call", "start"})) ]_vars
    /\ [][ \A line \in CallTypeLines :
              (SessCallType(line) /\ need_switch /\ line \notin (EntryPoints \cup {"switch"}))
                  => spc' = "ChooseCallType" /\ sReport' = "wrong_call_type"
                     /\ nCalls' = nCalls ]_vars
    /\ [][ (spc \in Prompts /\ sReport' # sReport /\ sReport' # "none")
              => spc' = "ChooseCallType" /\ sAddr' = sAddr ]_vars
    /\ [][ (spc = "call" /\ spc' # "call") => spc' = "ChooseCallType" /\ sAddr' = sAddr ]_vars
    /\ [][ (spc = "ChooseContract" /\ spc' = "start") => sAddr' \in DOMAIN ENGINES ]_vars
    /\ [][ (spc # "ended" /\ spc' = "ended")
              => \/ spc = "start" /\ sAddr \notin DOMAIN ENGINES /\ sReport' = "no_engine"
                 \/ spc = "recv" ]_vars

\* C16 witness: after a call has returned, the operator typed quit with
\* switch offered, and the loop prompts for the call type again
C16_PromptsAfterQuit ==
    /\ spc = "ChooseCallType" /\ sReport = "wrong_call_type"
    /\ nCalls > 0 /\ sAddr \in DOMAIN ENGINES

\* C19: in ChooseVariant a group or variant name the schema does not declare
\* dispatches no call, keeps the active contract, and is followed by the same
\* prompt for the same call type
C19_VariantAskedAgain ==
    /\ [][ \A line \in GroupLines :
              (SessGroup(line) /\ line \notin DOMAIN AnalyzerOf(sAddr).map_of_member)
                  => /\ spc' = "ChooseGroup" /\ call_type' = call_type
                     /\ sAddr' = sAddr /\ nCalls' = nCalls ]_vars
    /\ [][ \A line \in VariantLines :
              (SessVariant(line) /\ line \notin DOMAIN msg_type)
                  => /\ spc' = "ChooseVariant" /\ call_type' = call_type
                     /\ msg_type' = msg_type
                     /\ sAddr' = sAddr /\ nCalls' = nCalls ]_vars

\* --------------------------------------------------------- claims: call API
Decodes(msg) == base64_decode(msg).ok /\ from_utf8_ok(base64_decode(msg).bytes)

\* C10: a request makes one call with its entry point on its address when the
\* address is registered and the payload decodes, and that call ends in a
\* data response; otherwise it is answered with an error, no call is made and
\* the registry is unchanged
C10_CallApiAnswers ==
    /\ [][ \A address \in HttpAddresses, func_type \in EntryPoints, msg \in HttpMsgs :
              HttpRequest(address, func_type, msg)
                  => IF address \in DOMAIN ENGINES /\ Decodes(msg)
                     THEN /\ hpc' = "call" /\ nCalls' = nCalls + 1
                          /\ hReq'.address = address /\ hReq'.func_type = func_type
                          /\ ENGINES' = ENGINES
                     ELSE /\ hResp' # None /\ hResp'.kind = "error"
                          /\ hpc' = "idle" /\ nCalls' = nCalls
                          /\ ENGINES' = ENGINES ]_vars
    /\ [][ (hpc = "call" /\ hpc' # "call")
              => hResp' # None /\ hResp'.kind = "data" /\ nCalls' = nCalls ]_vars
    /\ [](hpc = "call" => hReq.address \in DOMAIN ENGINES /\ hReq.func_type \in EntryPoints)

\* C10 witness: after a call that returned data, a request on a registered
\* address whose payload is no UTF-8 has been answered with an error
C10_ErrorAfterData ==
    /\ hpc = "idle" /\ nCalls = 1
    /\ hResp = [kind |-> "error", body |-> "utf8"]

\* the session loop is past start_simulate's lookup and has not ended
SessionRunning == spc \in Prompts \cup {"call"}

\* C21: no step removes an address from the registry; while the session loop
\* runs, its active contract is registered; and start_simulate, entered again
\* after a switch, finds the address it is given
C21_RegistryOnlyGrows ==
    /\ [][ DOMAIN ENGINES \subseteq DOMAIN ENGINES' ]_vars
    /\ [](SessionRunning => sAddr \in DOMAIN ENGINES)
    /\ []((spc = "start" /\ need_switch) => sAddr \in DOMAIN ENGINES)
    /\ [][ (spc = "start" /\ need_switch) => spc' # "ended" ]_vars

\* C21 witness: the session has switched from a1 to a2 and runs on a2, after
\* a rebuild of a1 has failed and a1 is still registered
C21_SwitchedAfterFailedRebuild ==
    /\ spc = "ChooseCallType" /\ sAddr = "a2"
    /\ wReport = "install_error" /\ modified_files[1] = 2
    /\ DOMAIN ENGINES = {"a1", "a2"}

C23_StartupEnds == <>(spc # "recv")

\* --------------------------------------------------------- claims: querier
\* C20: an outbound query leaves the registry unchanged; a shape other than
\* Smart gets UnsupportedRequest and a Smart query of an unregistered address
\* gets NoSuchContract naming that address, both without any instance being
\* queried; any other Smart query runs on the instance of its target address
\* and nowhere else, and its failure comes back as the error InvalidResponse
C20_QueryByAddress ==
    [][ \A request \in QueryRequests :
            QueryWasm(request)
                => /\ ENGINES' = ENGINES
                   /\ hpc' = "call"
                   /\ IF request.kind # "Smart"
                      THEN qResp'.err = "UnsupportedRequest" /\ qResp'.queried = ""
                      ELSE IF request.contract_addr \notin DOMAIN ENGINES
                      THEN /\ qResp'.err = "NoSuchContract"
                           /\ qResp'.addr = request.contract_addr
                           /\ qResp'.queried = ""
                      ELSE /\ qResp'.queried = request.contract_addr
                           /\ (qResp'.ok \/ qResp'.err = "InvalidResponse") ]_vars

\* C20 witness: while a call runs on a1 with a2 registered, a query of the
\* unregistered address has been answered with NoSuchContract
C20_StrangerRefused ==
    /\ hpc = "call" /\ hReq.address = "a1" /\ "a2" \in DOMAIN ENGINES
    /\ qResp = QuerierResult(FALSE, "NoSuchContract", Stranger, "")

====
